---------------------------- MODULE Spec2Model ----------------------------
(***************************************************************************)
(* Model of lazyllm/tools/rag/utils.py: the document catalog               *)
(* (DocListManager / SqliteDocListManager) and the ingestion pipeline      *)
(* (save_files_in_threads).                                                *)
(*                                                                         *)
(* Strings that the code takes apart (paths, file names) are sequences of  *)
(* tokens, so that basename, splitext, endswith and the separator          *)
(* flattening are computed the way the code computes them.  A table is the *)
(* set of its rows; a query result is the bag of its rows, because the     *)
(* queries carry no ORDER BY.                                              *)
(***************************************************************************)
EXTENDS Integers, Sequences, FiniteSets, Bags, TLC

(***************************************************************************)
(* Bounds of the model.                                                    *)
(***************************************************************************)
\* longest list of paths (or ids) handed to one catalog call
MaxBatch == 2
\* highest value an AUTOINCREMENT key may reach
MaxSeq == 2

VARIABLES
    fsFiles,             \* files under the tracked directory (os.walk)
    tableInited,         \* the schema exists in the backing store
    documents,           \* rows of table documents
    document_groups,     \* rows of table document_groups
    kb_group_documents,  \* rows of table kb_group_documents
    seqGroup,            \* sqlite_sequence of document_groups
    seqKb,               \* sqlite_sequence of kb_group_documents
    last,                \* history: the last call made (AddSpec records it)
    conns,               \* thread -> its connection: none, open, closed
    dbFile,              \* the database file exists
    calls,               \* thread -> the call it makes and how far it is
    writer,              \* the thread whose transaction holds the write lock
    pending,             \* the tables as the open transaction has them
    batch,               \* save_files_in_threads: its argument files
    override,            \* save_files_in_threads: the overwrite flag
    dest0,               \* history: the destination directory at the call
    dest,                \* files of real_dir: name -> content
    cacheExists,         \* real_dir/cache exists
    cache,               \* files of the cache directory: name -> content
    pc,                  \* where save_files_in_threads stands
    tasks,               \* the futures of the pool: state and result of each
    result_list,         \* names collected from the tasks
    idx,                 \* position of the promotion loop in result_list
    already_exist_files, \* the three lists returned
    new_add_files,
    overwritten_files

catalogVars == <<fsFiles, tableInited, documents, document_groups,
                 kb_group_documents, seqGroup, seqKb>>

pipeVars == <<batch, override, dest0, dest, cacheExists, cache, pc, tasks,
              result_list, idx, already_exist_files, new_add_files,
              overwritten_files>>

threadVars == <<conns, dbFile, calls, writer, pending>>

vars == <<catalogVars, last, threadVars, pipeVars, threadVars>>

(***************************************************************************)
(* Values.                                                                 *)
(***************************************************************************)
\* SQL NULL / Python None in a column
NULL == "NULL"
\* a falsy optional argument (None or the empty string / list)
None == ""

DEDAULT_GROUP_NAME == "__default__"

Status_all == "all"
Status_waiting == "waiting"
Status_success == "success"
Status_failed == "failed"

\* the status values the calls of the model pass
StatusValues == {Status_waiting, Status_success}

\* absolute paths of files, as token sequences
Paths == { <<"/", "d", "/", "a">>, <<"/", "d", "/", "b">> }

Metadatas == {"m"}

GroupNames == {DEDAULT_GROUP_NAME, "g"}

Max(S) == CHOOSE m \in S : \A n \in S : n <= m

\* os.path.basename: what follows the last separator
basename(p) ==
    LET seps == {i \in 1..Len(p) : p[i] = "/"}
    IN  IF seps = {} THEN p ELSE SubSeq(p, Max(seps) + 1, Len(p))

\* hashlib.sha256(path).hexdigest(): injective on the paths of the model
sha256(p) == <<"sha256">> \o p

DocIds == {sha256(p) : p \in Paths}

\* the sequences over S of length lo..hi
SeqsOf(S, lo, hi) == UNION {[1..n -> S] : n \in lo..hi}

\* the orders in which a set can be listed
Orderings(S) == {s \in [1..Cardinality(S) -> S] : {s[i] : i \in DOMAIN s} = S}

\* the bag of f[r] over the rows r of S
BagOf(S, f) ==
    [v \in {f[r] : r \in S} |-> Cardinality({r \in S : f[r] = v})]

(***************************************************************************)
(* Statements on the tables.                                               *)
(***************************************************************************)
\* INSERT OR REPLACE: the new row displaces the one with the same key
InsertOrReplaceDocument(docs, row) ==
    {r \in docs : r.doc_id # row.doc_id} \cup {row}

\* INSERT OR IGNORE INTO documents: doc_id is the PRIMARY KEY
InsertOrIgnoreDocument(docs, row) ==
    IF \E r \in docs : r.doc_id = row.doc_id THEN docs ELSE docs \cup {row}

\* the row with the status argument dropped
DocumentRowDefaultStatus(file_path, metadata, status) ==
    [doc_id   |-> sha256(file_path),
     filename |-> basename(file_path),
     path     |-> file_path,
     metadata |-> metadata,
     status   |-> Status_waiting,
     count    |-> 1]

\* the row add_files inserts for a path
DocumentRow(file_path, metadata, status) ==
    [doc_id   |-> sha256(file_path),
     filename |-> basename(file_path),
     path     |-> file_path,
     metadata |-> metadata,
     status   |-> IF status # None THEN status ELSE Status_waiting,
     count    |-> 1]

\* the loop of add_files from index i on
RECURSIVE AddFilesFrom(_, _, _, _, _)
AddFilesFrom(docs, files, metadatas, status, i) ==
    IF i > Len(files) THEN docs
    ELSE AddFilesFrom(
            InsertOrIgnoreDocument(docs,
                DocumentRow(files[i],
                            IF metadatas # <<>> THEN metadatas[i] ELSE "",
                            status)),
            files, metadatas, status, i + 1)

\* metadatas[i] raises IndexError: the transaction is rolled back
AddFilesRaises(files, metadatas) ==
    metadatas # <<>> /\ Len(metadatas) < Len(files)

\* add_files on a table value: the table after the call
AddFilesTo(docs, files, metadatas, status) ==
    IF AddFilesRaises(files, metadatas) THEN docs
    ELSE AddFilesFrom(docs, files, metadatas, status, 1)

\* INSERT OR IGNORE INTO document_groups: group_name carries no UNIQUE
\* constraint, so nothing is ever ignored
InsertOrIgnoreGroup(groups, seq, name) ==
    groups \cup {[group_id |-> seq + 1, group_name |-> name]}

\* INSERT OR IGNORE INTO kb_group_documents: (doc_id, group_name) carries no
\* UNIQUE constraint and foreign keys are not enforced
InsertOrIgnoreKb(kb, seq, doc_id, group) ==
    kb \cup {[id |-> seq + 1, doc_id |-> doc_id, group_name |-> group,
              classification |-> NULL, status |-> Status_waiting,
              log |-> NULL]}

\* the loop of add_files_to_kb_group from index i on
RECURSIVE AddFilesToKbGroupFrom(_, _, _, _, _)
AddFilesToKbGroupFrom(kb, seq, files, group, i) ==
    IF i > Len(files) THEN kb
    ELSE AddFilesToKbGroupFrom(
            InsertOrIgnoreKb(kb, seq + i - 1, sha256(files[i]), group),
            seq, files, group, i + 1)

(***************************************************************************)
(* Queries.                                                                *)
(***************************************************************************)
\* a check that never finds the schema
table_inited_never == FALSE

\* SqliteDocListManager.table_inited
table_inited == tableInited

\* LIMIT ?: any `limit` of the rows; a falsy limit (None, 0) adds no clause
Limited(rows, limit) ==
    IF limit = 0 THEN {rows}
    ELSE {S \in SUBSET rows :
            Cardinality(S) = IF limit < Cardinality(rows) THEN limit
                             ELSE Cardinality(rows)}

\* the rows list_files selects, before LIMIT
list_files_rows(status) ==
    IF status # Status_all THEN {r \in documents : r.status = status}
    ELSE documents

\* list_files: the results the call may return, each a bag
list_files(limit, details, status) ==
    {IF details THEN BagOf(S, [r \in S |-> r])
                ELSE BagOf(S, [r \in S |-> r.filename]) :
        S \in Limited(list_files_rows(status), limit)}

\* list_all_kb_group: the bag of group names, one per row
list_all_kb_group == BagOf(document_groups,
                           [r \in document_groups |-> r.group_name])

\* kb_group_documents JOIN documents ON doc_id, filtered
list_kb_group_files_rows(group, status) ==
    {j \in {[kb |-> k, doc |-> d] : k \in kb_group_documents, d \in documents} :
        /\ j.kb.doc_id = j.doc.doc_id
        /\ group # None => j.kb.group_name = group
        /\ status # Status_all => j.kb.status = status}

KbDetailRow(j) ==
    <<j.kb.doc_id, j.doc.path, j.kb.group_name, j.kb.classification,
      j.kb.status, j.kb.log>>

\* list_kb_group_files: the results the call may return, each a bag
list_kb_group_files(group, limit, details, status) ==
    {IF details THEN BagOf(S, [j \in S |-> KbDetailRow(j)])
                ELSE BagOf(S, [j \in S |-> SubSeq(KbDetailRow(j), 1, 2)]) :
        S \in Limited(list_kb_group_files_rows(group, status), limit)}

\* get_file_status: the status column of the row, or NULL when there is none
get_file_status(fileid) ==
    IF \E r \in documents : r.doc_id = fileid
    THEN (CHOOSE r \in documents : r.doc_id = fileid).status
    ELSE NULL

(***************************************************************************)
(* Operations of the catalog.  A call made before the schema exists raises *)
(* sqlite3.OperationalError and changes nothing.                           *)
(***************************************************************************)
\* a backing store without schema
FreshStore ==
    /\ tableInited = FALSE
    /\ documents = {}
    /\ document_groups = {}
    /\ kb_group_documents = {}
    /\ seqGroup = 0
    /\ seqKb = 0
    /\ last = [op |-> "none"]

\* the threads that use one manager
Threads == {"t1", "t2"}

\* no call is under way and no transaction is open; the specifications that
\* run every call in one thread and to its end leave this state as it is
NoCalls ==
    /\ calls = [t \in Threads |-> [st |-> "idle"]]
    /\ writer = "none"
    /\ pending = <<>>

NoThreads ==
    /\ conns = [t \in Threads |-> "none"]
    /\ dbFile = FALSE
    /\ NoCalls

\* no ingestion batch is running
NoBatch ==
    /\ batch = <<>>
    /\ override = FALSE
    /\ dest0 = <<>>
    /\ dest = <<>>
    /\ cacheExists = FALSE
    /\ cache = <<>>
    /\ pc = "idle"
    /\ tasks = <<>>
    /\ result_list = <<>>
    /\ idx = 1
    /\ already_exist_files = <<>>
    /\ new_add_files = <<>>
    /\ overwritten_files = <<>>

Init ==
    /\ fsFiles \in SUBSET Paths
    /\ FreshStore
    /\ NoBatch
    /\ NoThreads

add_files(files, metadatas, status) ==
    /\ tableInited
    /\ documents' = AddFilesTo(documents, files, metadatas, status)
    /\ UNCHANGED <<fsFiles, tableInited, document_groups,
                   kb_group_documents, seqGroup, seqKb>>

add_kb_group(name) ==
    /\ tableInited
    /\ seqGroup < MaxSeq
    /\ document_groups' = InsertOrIgnoreGroup(document_groups, seqGroup, name)
    /\ seqGroup' = seqGroup + 1
    /\ UNCHANGED <<fsFiles, tableInited, documents, kb_group_documents, seqKb>>

add_files_to_kb_group(files, group) ==
    /\ tableInited
    /\ seqKb + Len(files) <= MaxSeq
    /\ kb_group_documents' =
          AddFilesToKbGroupFrom(kb_group_documents, seqKb, files, group, 1)
    /\ seqKb' = seqKb + Len(files)
    /\ UNCHANGED <<fsFiles, tableInited, documents, document_groups, seqGroup>>

\* DocListManager.init_tables: schema, walk, add_files, add_kb_group,
\* add_files_to_kb_group
init_tables(files_list) ==
    IF ~table_inited
    THEN /\ tableInited' = TRUE
         /\ documents' = AddFilesTo(documents, files_list, <<>>, Status_success)
         /\ document_groups' =
               InsertOrIgnoreGroup(document_groups, seqGroup, DEDAULT_GROUP_NAME)
         /\ seqGroup' = seqGroup + 1
         /\ kb_group_documents' =
               AddFilesToKbGroupFrom(kb_group_documents, seqKb, files_list,
                                     DEDAULT_GROUP_NAME, 1)
         /\ seqKb' = seqKb + Len(files_list)
         /\ UNCHANGED fsFiles
    ELSE UNCHANGED catalogVars

\* the field patches update_file_message is called with (**kw)
Patches ==
    {[path |-> p] : p \in Paths}
    \cup {[doc_id |-> d] : d \in DocIds}
    \cup {[metadata |-> m] : m \in Metadatas}
    \cup {[status |-> s, metadata |-> m] : s \in {Status_success}, m \in Metadatas}
    \cup {<<>>}

\* UPDATE documents SET k = ?, ... WHERE doc_id = ?
UpdateDocuments(docs, fileid, kw) ==
    {IF r.doc_id = fileid
        THEN [c \in DOMAIN r |-> IF c \in DOMAIN kw THEN kw[c] ELSE r[c]]
        ELSE r : r \in docs}

\* the statement fails: an empty SET clause is a syntax error, and a doc_id
\* already in the table violates the PRIMARY KEY
UpdateDocumentsRaises(docs, fileid, kw) ==
    \/ DOMAIN kw = {}
    \/ /\ "doc_id" \in DOMAIN kw
       /\ \E r \in docs : r.doc_id = fileid
       /\ \E r \in docs : r.doc_id # fileid /\ r.doc_id = kw.doc_id

update_file_message(fileid, kw) ==
    /\ tableInited
    /\ documents' = IF UpdateDocumentsRaises(documents, fileid, kw)
                       THEN documents
                       ELSE UpdateDocuments(documents, fileid, kw)
    /\ UNCHANGED <<fsFiles, tableInited, document_groups,
                   kb_group_documents, seqGroup, seqKb>>

update_file_status(fileid, status) ==
    /\ tableInited
    /\ documents' = UpdateDocuments(documents, fileid, [status |-> status])
    /\ UNCHANGED <<fsFiles, tableInited, document_groups,
                   kb_group_documents, seqGroup, seqKb>>

\* DELETE FROM documents WHERE doc_id = ?, for each path
delete_files(files) ==
    /\ tableInited
    /\ documents' =
          {r \in documents :
              \A i \in DOMAIN files : r.doc_id # sha256(files[i])}
    /\ UNCHANGED <<fsFiles, tableInited, document_groups,
                   kb_group_documents, seqGroup, seqKb>>

\* DELETE FROM kb_group_documents WHERE doc_id = ? AND group_name = ?
delete_files_from_kb_group(files, group) ==
    /\ tableInited
    /\ kb_group_documents' =
          {r \in kb_group_documents :
              \A i \in DOMAIN files :
                  ~(r.doc_id = sha256(files[i]) /\ r.group_name = group)}
    /\ UNCHANGED <<fsFiles, tableInited, documents, document_groups,
                   seqGroup, seqKb>>

\* if isinstance(file_ids, str): file_ids = [file_ids]
FileIdsOf(file_ids) ==
    IF "str" \in DOMAIN file_ids THEN <<file_ids.str>> ELSE file_ids.list

\* the values file_ids takes: one id, or a list of ids
FileIdsArgs ==
    {[str |-> d] : d \in DocIds}
    \cup {[list |-> l] : l \in SeqsOf(DocIds, 1, MaxBatch)}

\* the same statement without `group_name = ?` in its WHERE clause
update_kb_group_file_status_any_group(group, file_ids, status) ==
    /\ tableInited
    /\ kb_group_documents' =
          {IF \E i \in DOMAIN FileIdsOf(file_ids) : r.doc_id = FileIdsOf(file_ids)[i]
              THEN [r EXCEPT !.status = status]
              ELSE r : r \in kb_group_documents}
    /\ UNCHANGED <<fsFiles, tableInited, documents, document_groups,
                   seqGroup, seqKb>>

\* UPDATE kb_group_documents SET status = ? WHERE group_name = ? AND
\* doc_id IN (...); file_ids is the list the argument is turned into
update_kb_group_file_status(group, file_ids, status) ==
    /\ tableInited
    /\ kb_group_documents' =
          {IF /\ r.group_name = group
              /\ \E i \in DOMAIN FileIdsOf(file_ids) : r.doc_id = FileIdsOf(file_ids)[i]
              THEN [r EXCEPT !.status = status]
              ELSE r : r \in kb_group_documents}
    /\ UNCHANGED <<fsFiles, tableInited, documents, document_groups,
                   seqGroup, seqKb>>

\* every operation of the catalog
Next ==
    \/ \E files_list \in Orderings(fsFiles) :
          init_tables(files_list) /\ UNCHANGED <<last, pipeVars, threadVars>>
    \/ \E files \in SeqsOf(Paths, 0, MaxBatch), status \in {None, Status_success} :
          add_files(files, <<>>, status) /\ UNCHANGED <<last, pipeVars, threadVars>>
    \/ \E name \in GroupNames :
          add_kb_group(name) /\ UNCHANGED <<last, pipeVars, threadVars>>
    \/ \E files \in SeqsOf(Paths, 0, MaxBatch), group \in GroupNames :
          add_files_to_kb_group(files, group) /\ UNCHANGED <<last, pipeVars, threadVars>>
    \/ \E fileid \in DocIds, kw \in Patches :
          update_file_message(fileid, kw) /\ UNCHANGED <<last, pipeVars, threadVars>>
    \/ \E fileid \in DocIds, status \in StatusValues :
          update_file_status(fileid, status) /\ UNCHANGED <<last, pipeVars, threadVars>>
    \/ \E files \in SeqsOf(Paths, 0, MaxBatch) :
          delete_files(files) /\ UNCHANGED <<last, pipeVars, threadVars>>
    \/ \E files \in SeqsOf(Paths, 0, MaxBatch), group \in GroupNames :
          delete_files_from_kb_group(files, group)
              /\ UNCHANGED <<last, pipeVars, threadVars>>
    \/ \E group \in GroupNames, file_ids \in FileIdsArgs,
          status \in StatusValues :
          update_kb_group_file_status(group, file_ids, status)
              /\ UNCHANGED <<last, pipeVars, threadVars>>

Spec == Init /\ [][Next]_vars

\* the catalog under the operations that write a status: the tables are set
\* up, files join groups, and the two status updates run
StatusNext ==
    \/ \E files_list \in Orderings(fsFiles) :
          init_tables(files_list) /\ UNCHANGED <<last, pipeVars, threadVars>>
    \/ \E files \in SeqsOf(Paths, 1, MaxBatch), group \in GroupNames :
          add_files_to_kb_group(files, group) /\ UNCHANGED <<last, pipeVars, threadVars>>
    \/ \E fileid \in DocIds, status \in StatusValues :
          update_file_status(fileid, status) /\ UNCHANGED <<last, pipeVars, threadVars>>
    \/ \E group \in GroupNames, file_ids \in FileIdsArgs,
          status \in StatusValues :
          update_kb_group_file_status(group, file_ids, status)
              /\ UNCHANGED <<last, pipeVars, threadVars>>

StatusSpec == Init /\ [][StatusNext]_vars

\* the call hands add_files a path that already has a row, with a metadata
\* or a status other than the row's
Readds(files, metadatas, status) ==
    /\ ~AddFilesRaises(files, metadatas)
    /\ \E i \in DOMAIN files : \E r \in documents :
          /\ r.path = files[i]
          /\ r # DocumentRow(files[i],
                             IF metadatas # <<>> THEN metadatas[i] ELSE "",
                             status)

\* setup and add_files alone, with the call recorded
AddNext ==
    \/ \E files_list \in Orderings(fsFiles) :
          /\ init_tables(files_list)
          /\ last' = [op |-> "init_tables", inited |-> tableInited]
          /\ UNCHANGED <<pipeVars, threadVars>>
    \/ \E files \in SeqsOf(Paths, 0, MaxBatch),
          metadatas \in SeqsOf(Metadatas, 0, MaxBatch),
          status \in {None, Status_success, Status_failed} :
          /\ add_files(files, metadatas, status)
          /\ last' = [op |-> "add_files",
                      readds |-> Readds(files, metadatas, status)]
          /\ UNCHANGED <<pipeVars, threadVars>>

AddSpec == Init /\ [][AddNext]_vars

(***************************************************************************)
(* The ingestion pipeline: save_files_in_threads.  A file name is a        *)
(* sequence of tokens; a directory is a map from names to contents.        *)
(***************************************************************************)
\* longest batch of uploaded files
MaxFiles == 2

Default_Suport_File_Types ==
    { <<".", "docx">>, <<".", "pdf">>, <<".", "txt">>, <<".", "json">> }

\* os.path.splitext(name)[-1]: from the last dot of the last component on,
\* a dot that starts the component not counting
splitext(name) ==
    LET b    == basename(name)
        dots == {i \in 2..Len(b) : b[i] = "."}
    IN  IF dots = {} THEN <<>> ELSE SubSeq(b, Max(dots), Len(b))

\* name.endswith(".tar")
endswith_tar(name) ==
    Len(name) >= 2 /\ SubSeq(name, Len(name) - 1, Len(name)) = <<".", "tar">>

_convert_path_to_underscores(file_path) ==
    [i \in 1..Len(file_path) |->
        IF file_path[i] \in {"/", "\\"} THEN "_" ELSE file_path[i]]

\* a filter that lets every suffix through
RecognizedAlways(name, suport_file_types) == TRUE

\* file_extension in suport_file_types
Recognized(name, suport_file_types) == splitext(name) \in suport_file_types

Bytes(d) == [kind |-> "bytes", data |-> d]
Tar(members) == [kind |-> "tar", members |-> members]

Put(dir, name, content) ==
    [n \in DOMAIN dir \cup {name} |-> IF n = name THEN content ELSE dir[n]]
Drop(dir, name) == [n \in DOMAIN dir \ {name} |-> dir[n]]

A_TXT == <<"a", ".", "txt">>
B_TXT == <<"b", ".", "txt">>
B_EXE == <<"b", ".", "exe">>
D_A_TXT == <<"d", "/", "a", ".", "txt">>

\* the uploads a batch is made of: two files of one name, a file of an
\* unrecognized type, an archive with a recognized, an unrecognized and a
\* nested member, a malformed archive, and a file named like the flattened
\* nested member
Uploads ==
    { [filename |-> A_TXT, content |-> Bytes("c1")],
      [filename |-> A_TXT, content |-> Bytes("c2")],
      [filename |-> B_EXE, content |-> Bytes("c1")],
      [filename |-> <<"t", ".", "tar">>,
       content  |-> Tar(<< [name |-> B_TXT, content |-> Bytes("c1")],
                           [name |-> B_EXE, content |-> Bytes("c2")],
                           [name |-> D_A_TXT, content |-> Bytes("c2")] >>)],
      [filename |-> <<"m", ".", "tar">>, content |-> Bytes("garbage")],
      [filename |-> _convert_path_to_underscores(D_A_TXT),
       content  |-> Bytes("c1")] }

\* the destination directory before the call
DestInits ==
    { <<>>, (A_TXT :> Bytes("old")) @@ (B_EXE :> Bytes("old")) }

\* the cache directory before the call: absent, or left over
CacheInits ==
    { [exists |-> FALSE, dir |-> <<>>],
      [exists |-> TRUE, dir |-> (A_TXT :> Bytes("stale"))] }

Task(st, res, taken) == [st |-> st, res |-> res, taken |-> taken]

PipeInit ==
    /\ fsFiles = {}
    /\ FreshStore
    /\ NoThreads
    /\ batch \in SeqsOf(Uploads, 0, MaxFiles)
    /\ override \in BOOLEAN
    /\ dest0 \in DestInits
    /\ dest = dest0
    /\ \E c \in CacheInits : cacheExists = c.exists /\ cache = c.dir
    /\ pc = "called"
    /\ tasks = [i \in DOMAIN batch |-> Task("idle", <<>>, FALSE)]
    /\ result_list = <<>>
    /\ idx = 1
    /\ already_exist_files = <<>>
    /\ new_add_files = <<>>
    /\ overwritten_files = <<>>

\* save_files_in_threads up to the pool: the cache directory is removed if
\* present and made anew
prepare ==
    /\ pc = "called"
    /\ cacheExists' = TRUE
    /\ cache' = <<>>
    /\ pc' = "submit"
    /\ UNCHANGED <<catalogVars, last, threadVars, batch, override, dest0, dest, tasks, result_list, idx,
                   already_exist_files, new_add_files, overwritten_files>>

\* run_in_thread_pool: every file is submitted to the pool.  The submits
\* touch nothing a task reads, so they are taken as one step.
submit ==
    /\ pc = "submit"
    /\ tasks' = [i \in DOMAIN batch |-> Task("ready", <<>>, FALSE)]
    /\ pc' = "collect"
    /\ UNCHANGED <<catalogVars, last, threadVars, batch, override, dest0, dest, cacheExists, cache,
                   result_list, idx, already_exist_files, new_add_files,
                   overwritten_files>>

taskFrame == <<catalogVars, last, threadVars, batch, override, dest0, dest, cacheExists, pc, result_list,
               idx, already_exist_files, new_add_files, overwritten_files>>

\* _save_file_to_cache, first step: an archive is written to the cache; any
\* other file of a recognized type is looked up there
_save_file_to_cache(i) ==
    /\ tasks[i].st = "ready"
    /\ LET file == batch[i]
       IN  IF endswith_tar(file.filename)
           THEN /\ cache' = Put(cache, file.filename, file.content)
                /\ tasks' = [tasks EXCEPT ![i].st = "unpack"]
           ELSE /\ UNCHANGED cache
                /\ tasks' =
                     IF Recognized(file.filename, Default_Suport_File_Types)
                     THEN IF file.filename \in DOMAIN cache
                          THEN [tasks EXCEPT ![i] =
                                   Task("done", <<file.filename>>, FALSE)]
                          ELSE [tasks EXCEPT ![i].st = "write"]
                     ELSE [tasks EXCEPT ![i] = Task("done", <<>>, FALSE)]
    /\ UNCHANGED taskFrame

\* _save_file of a file that was not found in the cache
_save_file(i) ==
    /\ tasks[i].st = "write"
    /\ cache' = Put(cache, batch[i].filename, batch[i].content)
    /\ tasks' = [tasks EXCEPT ![i] = Task("done", <<batch[i].filename>>, FALSE)]
    /\ UNCHANGED taskFrame

\* the members tar.extract is called for, in order
RECURSIVE ExtractedNames(_, _)
ExtractedNames(members, k) ==
    IF k > Len(members) THEN <<>>
    ELSE (IF Recognized(members[k].name, Default_Suport_File_Types)
             THEN <<members[k].name>> ELSE <<>>)
         \o ExtractedNames(members, k + 1)

\* the cache after the extraction of those members
RECURSIVE Extracted(_, _, _)
Extracted(dir, members, k) ==
    IF k > Len(members) THEN dir
    ELSE Extracted(
            IF Recognized(members[k].name, Default_Suport_File_Types)
               THEN Put(dir, members[k].name, members[k].content) ELSE dir,
            members, k + 1)

\* unpack_archive: tarfile.open raises on a missing file and on what is no
\* archive; members of a recognized type are extracted into the cache
unpack_archive(i) ==
    /\ tasks[i].st = "unpack"
    /\ LET tar_file_path == batch[i].filename
       IN  IF tar_file_path \in DOMAIN cache
              /\ cache[tar_file_path].kind = "tar"
           THEN /\ cache' = Extracted(cache, cache[tar_file_path].members, 1)
                /\ tasks' = [tasks EXCEPT ![i] =
                      Task("remove",
                           ExtractedNames(cache[tar_file_path].members, 1),
                           FALSE)]
           ELSE /\ UNCHANGED cache
                /\ tasks' = [tasks EXCEPT ![i].st = "failed"]
    /\ UNCHANGED taskFrame

\* os.remove(to_file_path): raises when the archive is no longer there
remove_archive(i) ==
    /\ tasks[i].st = "remove"
    /\ IF batch[i].filename \in DOMAIN cache
       THEN /\ cache' = Drop(cache, batch[i].filename)
            /\ tasks' = [tasks EXCEPT ![i].st = "done"]
       ELSE /\ UNCHANGED cache
            /\ tasks' = [tasks EXCEPT ![i].st = "failed"]
    /\ UNCHANGED taskFrame

Finished(i) == tasks[i].st \in {"done", "failed"}

\* taking a failed future while cancelling the futures that have not started,
\* as shutdown(cancel_futures=True) would
as_completed_cancelling(i) ==
    /\ pc = "collect"
    /\ tasks[i].st \in {"done", "failed"}
    /\ ~tasks[i].taken
    /\ IF tasks[i].st = "done"
       THEN /\ tasks' = [tasks EXCEPT ![i].taken = TRUE]
            /\ result_list' = result_list \o tasks[i].res
            /\ pc' = "collect"
       ELSE /\ tasks' = [j \in DOMAIN tasks |->
                            IF j = i THEN [tasks[j] EXCEPT !.taken = TRUE]
                            ELSE IF tasks[j].st = "ready"
                                 THEN [tasks[j] EXCEPT !.st = "cancelled"]
                                 ELSE tasks[j]]
            /\ UNCHANGED result_list
            /\ pc' = "shutdown"
    /\ UNCHANGED <<catalogVars, last, threadVars, batch, override, dest0, dest, cacheExists, cache, idx,
                   already_exist_files, new_add_files, overwritten_files>>

\* for obj in as_completed(tasks): yield obj.result() -- a finished future
\* is taken; its result extends result_list, its exception leaves the
\* generator
as_completed(i) ==
    /\ pc = "collect"
    /\ Finished(i)
    /\ ~tasks[i].taken
    /\ tasks' = [tasks EXCEPT ![i].taken = TRUE]
    /\ IF tasks[i].st = "done"
       THEN /\ result_list' = result_list \o tasks[i].res
            /\ pc' = "collect"
       ELSE /\ UNCHANGED result_list
            /\ pc' = "shutdown"
    /\ UNCHANGED <<catalogVars, last, threadVars, batch, override, dest0, dest, cacheExists, cache, idx,
                   already_exist_files, new_add_files, overwritten_files>>

\* the same exit with shutdown(wait=False): it returns at once
pool_exit_nowait ==
    /\ \/ pc = "collect" /\ (\A i \in DOMAIN tasks : tasks[i].taken)
                         /\ pc' = "promote"
       \/ pc = "shutdown" /\ pc' = "raised"
    /\ UNCHANGED <<catalogVars, last, threadVars, batch, override, dest0, dest,
                   cacheExists, cache, tasks, result_list, idx,
                   already_exist_files, new_add_files, overwritten_files>>

\* the end of `with ThreadPoolExecutor() as pool`: shutdown(wait=True)
\* returns when every task has finished; the loop ended, or an exception
\* goes on to the caller
pool_exit ==
    /\ \A i \in DOMAIN tasks : Finished(i)
    /\ \/ pc = "collect" /\ (\A i \in DOMAIN tasks : tasks[i].taken)
                         /\ pc' = "promote"
       \/ pc = "shutdown" /\ pc' = "raised"
    /\ UNCHANGED <<catalogVars, last, threadVars, batch, override, dest0, dest, cacheExists, cache, tasks,
                   result_list, idx, already_exist_files, new_add_files,
                   overwritten_files>>

\* one turn of the loop over result_list; os.rename raises when the staged
\* file is not in the cache
promote ==
    /\ pc = "promote"
    /\ idx <= Len(result_list)
    /\ LET file_name      == result_list[idx]
           real_file_path == _convert_path_to_underscores(file_name)
           renamed ==
               /\ dest' = Put(dest, real_file_path, cache[file_name])
               /\ cache' = Drop(cache, file_name)
               /\ idx' = idx + 1
               /\ pc' = "promote"
           raises ==
               /\ pc' = "raised"
               /\ UNCHANGED <<dest, cache, idx, already_exist_files,
                              new_add_files, overwritten_files>>
       IN  IF real_file_path \in DOMAIN dest
           THEN IF ~override
                THEN /\ already_exist_files' =
                           Append(already_exist_files, file_name)
                     /\ idx' = idx + 1
                     /\ UNCHANGED <<dest, cache, pc, new_add_files,
                                    overwritten_files>>
                ELSE IF file_name \in DOMAIN cache
                     THEN /\ renamed
                          /\ overwritten_files' =
                                Append(overwritten_files, file_name)
                          /\ UNCHANGED <<already_exist_files, new_add_files>>
                     ELSE raises
           ELSE IF file_name \in DOMAIN cache
                THEN /\ renamed
                     /\ new_add_files' = Append(new_add_files, file_name)
                     /\ UNCHANGED <<already_exist_files, overwritten_files>>
                ELSE raises
    /\ UNCHANGED <<catalogVars, last, threadVars, batch, override, dest0, cacheExists, tasks, result_list>>

\* after the loop: the cache directory is removed and the lists returned
cleanup ==
    /\ pc = "promote"
    /\ idx > Len(result_list)
    /\ cacheExists' = FALSE
    /\ cache' = <<>>
    /\ pc' = "returned"
    /\ UNCHANGED <<catalogVars, last, threadVars, batch, override, dest0, dest, tasks, result_list, idx,
                   already_exist_files, new_add_files, overwritten_files>>

PipeNext ==
    \/ prepare
    \/ submit
    \/ \E i \in DOMAIN tasks : _save_file_to_cache(i)
    \/ \E i \in DOMAIN tasks : _save_file(i)
    \/ \E i \in DOMAIN tasks : unpack_archive(i)
    \/ \E i \in DOMAIN tasks : remove_archive(i)
    \/ \E i \in DOMAIN tasks : as_completed(i)
    \/ pool_exit
    \/ promote
    \/ cleanup

PipeSpec == PipeInit /\ [][PipeNext]_vars

\* the steps of the worker that runs task i, and those of the calling thread
TaskStep(i) ==
    /\ i \in DOMAIN tasks
    /\ \/ _save_file_to_cache(i)
       \/ _save_file(i)
       \/ unpack_archive(i)
       \/ remove_archive(i)

MainStep ==
    \/ prepare
    \/ submit
    \/ \E i \in DOMAIN tasks : as_completed(i)
    \/ pool_exit
    \/ promote
    \/ cleanup

\* every worker of the pool, and the caller, is scheduled again and again
FairPipeSpec ==
    /\ PipeSpec
    /\ WF_vars(MainStep)
    /\ \A i \in 1..MaxFiles : WF_vars(TaskStep(i))

(***************************************************************************)
(* The catalog used by several threads.  Each thread has its own           *)
(* connection; a call that writes runs its statements one by one inside    *)
(* `with self._conn:`, which commits when the block ends and rolls back    *)
(* when an exception leaves it.  SQLite lets one connection write at a     *)
(* time, and the other connections read the committed tables.              *)
(***************************************************************************)
\* the tables a transaction reads and writes
Db == [documents |-> documents, kb |-> kb_group_documents, seqKb |-> seqKb]

\* the values of metadatas for a list of files: none, one per file, or one
\* too few
MetadatasFor(files) ==
    {<<>>} \cup {[i \in 1..n |-> "m"] : n \in {Len(files) - 1, Len(files)}}

\* the lists of files a call is given: one path or more, in any order
FileLists == UNION {Orderings(S) : S \in SUBSET Paths \ {{}}}

\* the calls a thread makes
CallInputs ==
    {[op |-> "add_files", files |-> f, metadatas |-> m, status |-> s] :
        f \in FileLists, m \in UNION {MetadatasFor(g) : g \in FileLists},
        s \in {None, Status_failed}}
    \cup {[op |-> "add_files_to_kb_group", files |-> f, group |-> g] :
            f \in FileLists, g \in GroupNames}
    \cup {[op |-> "delete_files", files |-> f] : f \in FileLists}
    \cup {[op |-> "delete_files_from_kb_group", files |-> f, group |-> g] :
            f \in FileLists, g \in GroupNames}
    \cup {[op |-> "update_kb_group_file_status", group |-> g,
           file_ids |-> [list |-> <<sha256(f[1])>>], status |-> Status_failed] :
            f \in FileLists, g \in GroupNames}

\* the number of statements the call executes
NStmts(c) ==
    IF c.op = "update_kb_group_file_status" THEN 1 ELSE Len(c.files)

\* metadatas[i] raises IndexError before statement i is executed
IndexError(c, i) ==
    /\ c.op = "add_files"
    /\ c.metadatas # <<>>
    /\ i > Len(c.metadatas)

\* statement i of the call, executed on the tables db
Exec(db, c, i) ==
    CASE c.op = "add_files" ->
           [db EXCEPT !.documents =
               InsertOrIgnoreDocument(@,
                   DocumentRow(c.files[i],
                               IF c.metadatas # <<>> THEN c.metadatas[i] ELSE "",
                               c.status))]
      [] c.op = "add_files_to_kb_group" ->
           [db EXCEPT !.kb = InsertOrIgnoreKb(@, db.seqKb, sha256(c.files[i]),
                                              c.group),
                      !.seqKb = @ + 1]
      [] c.op = "delete_files" ->
           [db EXCEPT !.documents =
               {r \in @ : r.doc_id # sha256(c.files[i])}]
      [] c.op = "delete_files_from_kb_group" ->
           [db EXCEPT !.kb =
               {r \in @ : ~(r.doc_id = sha256(c.files[i])
                            /\ r.group_name = c.group)}]
      [] c.op = "update_kb_group_file_status" ->
           [db EXCEPT !.kb =
               {IF /\ r.group_name = c.group
                   /\ \E k \in DOMAIN FileIdsOf(c.file_ids) :
                         r.doc_id = FileIdsOf(c.file_ids)[k]
                   THEN [r EXCEPT !.status = c.status]
                   ELSE r : r \in @}]

\* the tables as thread t reads them: its own transaction's, or the committed
ReadBy(t) == IF writer = t THEN pending ELSE Db

\* after the thread that constructed the manager, t1, ran init_tables on a
\* directory: its connection is open, the others have none
ThreadInit ==
    /\ fsFiles \in SUBSET Paths
    /\ \E files_list \in Orderings(fsFiles) :
        /\ documents = AddFilesTo({}, files_list, <<>>, Status_success)
        /\ kb_group_documents =
              AddFilesToKbGroupFrom({}, 0, files_list, DEDAULT_GROUP_NAME, 1)
        /\ seqKb = Len(files_list)
    /\ tableInited = TRUE
    /\ document_groups = InsertOrIgnoreGroup({}, 0, DEDAULT_GROUP_NAME)
    /\ seqGroup = 1
    /\ last = [op |-> "none"]
    /\ NoBatch
    /\ conns = [t \in Threads |-> IF t = "t1" THEN "open" ELSE "none"]
    /\ dbFile = TRUE
    /\ NoCalls

\* thread t enters a call: `with self._conn:` opens the thread's connection
\* if it has none (on a closed connection the first statement raises and
\* nothing changes)
call(t, c) ==
    /\ calls[t].st = "idle"
    /\ dbFile
    /\ conns[t] # "closed"
    /\ conns' = [conns EXCEPT ![t] = "open"]
    /\ calls' = [calls EXCEPT ![t] = [st |-> "running", c |-> c, i |-> 1]]
    /\ UNCHANGED <<catalogVars, last, pipeVars, dbFile, writer, pending>>

\* self._conn.execute(...) for statement i: the first write of a transaction
\* takes the write lock, which no other connection holds
execute(t) ==
    /\ calls[t].st = "running"
    /\ calls[t].i <= NStmts(calls[t].c)
    /\ ~IndexError(calls[t].c, calls[t].i)
    /\ writer \in {"none", t}
    /\ writer' = t
    /\ pending' = Exec(ReadBy(t), calls[t].c, calls[t].i)
    /\ calls' = [calls EXCEPT ![t].i = @ + 1]
    /\ UNCHANGED <<catalogVars, last, pipeVars, conns, dbFile>>

\* the transaction of t is over: the lock is free
Unlock(t) ==
    /\ writer' = IF writer = t THEN "none" ELSE writer
    /\ pending' = IF writer = t THEN <<>> ELSE pending

\* an exception that leaves the block with the partial work committed
raises_committing(t) ==
    /\ calls[t].st = "running"
    /\ calls[t].i <= NStmts(calls[t].c)
    /\ documents' = ReadBy(t).documents
    /\ kb_group_documents' = ReadBy(t).kb
    /\ seqKb' = ReadBy(t).seqKb
    /\ Unlock(t)
    /\ calls' = [calls EXCEPT ![t].st = "raised"]
    /\ UNCHANGED <<fsFiles, tableInited, document_groups, seqGroup,
                   last, pipeVars, conns, dbFile>>

\* statement i raises (IndexError of metadatas[i], sqlite3.InterfaceError,
\* "database is locked", an I/O error): the exception leaves the block and
\* the transaction is rolled back
raises(t) ==
    /\ calls[t].st = "running"
    /\ calls[t].i <= NStmts(calls[t].c)
    /\ Unlock(t)
    /\ calls' = [calls EXCEPT ![t].st = "raised"]
    /\ UNCHANGED <<catalogVars, last, pipeVars, conns, dbFile>>

\* the threads whose call is under way, and the number of calls that have
\* committed (kept with each call as the history the properties refer to)
Running == {u \in Threads : calls[u].st = "running"}

Landed ==
    Cardinality({u \in Threads : calls[u].st = "returned"
                                   /\ calls[u].c.op # "release"})

\* the block ends after the last statement: the transaction is committed
commit(t) ==
    /\ calls[t].st = "running"
    /\ calls[t].i > NStmts(calls[t].c)
    /\ documents' = ReadBy(t).documents
    /\ kb_group_documents' = ReadBy(t).kb
    /\ seqKb' = ReadBy(t).seqKb
    /\ Unlock(t)
    /\ calls' = [calls EXCEPT ![t] =
                    [st |-> "returned", c |-> @.c, i |-> @.i,
                     order |-> Landed + 1, during |-> Running \ {t}]]
    /\ UNCHANGED <<fsFiles, tableInited, document_groups, seqGroup,
                   last, pipeVars, conns, dbFile>>

\* release(): self._conn is the calling thread's connection, opened if the
\* thread has none; it is closed and the file is removed
release(t) ==
    /\ calls[t].st = "idle"
    /\ conns' = [conns EXCEPT ![t] = "closed"]
    /\ dbFile' = FALSE
    /\ calls' = [calls EXCEPT ![t] = [st |-> "returned", c |-> [op |-> "release"],
                                      i |-> 1]]
    /\ UNCHANGED <<catalogVars, last, pipeVars, writer, pending>>

ThreadNext ==
    \/ \E t \in Threads, c \in CallInputs : call(t, c)
    \/ \E t \in Threads : execute(t)
    \/ \E t \in Threads : raises(t)
    \/ \E t \in Threads : commit(t)
    \/ \E t \in Threads : release(t)

ThreadSpec == ThreadInit /\ [][ThreadNext]_vars

\* the whole call executed on the tables db, from statement i on
RECURSIVE ExecFrom(_, _, _)
ExecFrom(db, c, i) ==
    IF i > NStmts(c) THEN db ELSE ExecFrom(Exec(db, c, i), c, i + 1)

(***************************************************************************)
(* Properties of the catalog.                                              *)
(***************************************************************************)
AddFilesInputs ==
    SeqsOf(Paths, 0, MaxBatch) \X SeqsOf(Metadatas, 0, MaxBatch)
        \X {None, Status_success, Status_failed}

OneRowPerPath(docs) == \A r1, r2 \in docs : r1.path = r2.path => r1 = r2

\* C1: after any sequence of add_files calls the documents table holds at
\* most one row per path, and an add_files call leaves the row of every
\* path it names that already has one as it was (filename, path, metadata,
\* status, count).
C1_AddFilesNeverDuplicatesNorUpdates ==
    [][/\ OneRowPerPath(documents')
       /\ \A in \in AddFilesInputs :
            add_files(in[1], in[2], in[3]) =>
                \A r \in documents :
                    (\E i \in DOMAIN in[1] : in[1][i] = r.path) =>
                        r \in documents']_vars

\* an add_files call has just named a path that had a row with other values
C1_Witness ==
    /\ last.op = "add_files"
    /\ last.readds
    /\ Cardinality(documents) = Cardinality(Paths)

MembershipsOf(kb, doc_id, group) ==
    {k \in kb : k.doc_id = doc_id /\ k.group_name = group}

\* C2: add_files_to_kb_group creates one membership with status waiting for
\* each (path, group) pair that has none and leaves the memberships of a
\* pair that has one as they are: no second row, no change of the row.
C2_AddToGroupLeavesExistingMembership ==
    [][\A files \in SeqsOf(Paths, 0, MaxBatch), group \in GroupNames :
          add_files_to_kb_group(files, group) =>
            \A i \in DOMAIN files :
                LET before == MembershipsOf(kb_group_documents,
                                            sha256(files[i]), group)
                    after  == MembershipsOf(kb_group_documents',
                                            sha256(files[i]), group)
                IN  IF before # {} THEN after = before
                    ELSE /\ Cardinality(after) = 1
                         /\ \A k \in after : k.status = Status_waiting]_vars

\* C3: list_all_kb_group returns each group name exactly once, whatever
\* add_kb_group calls were made.
C3_EachGroupListedOnce ==
    \A name \in DOMAIN list_all_kb_group : list_all_kb_group[name] = 1

\* C4: init_tables is idempotent: after an invocation there is exactly one
\* document row and exactly one default-group membership per physical file,
\* and an invocation made when the schema exists changes nothing in the
\* catalog.
C4_InitTablesIdempotent ==
    [][\A files_list \in Orderings(fsFiles) :
          init_tables(files_list) =>
            /\ tableInited => UNCHANGED catalogVars
            /\ \A f \in fsFiles :
                /\ Cardinality({r \in documents' : r.path = f}) = 1
                /\ Cardinality(MembershipsOf(kb_group_documents', sha256(f),
                                             DEDAULT_GROUP_NAME)) = 1]_vars

\* init_tables has just been invoked on a store that had its schema
C4_Witness ==
    /\ last.op = "init_tables"
    /\ last.inited
    /\ fsFiles = Paths

\* C5: after the first init_tables on a store without schema, every file of
\* the tracked directory is a document with status success, the default
\* group exists, and every file has a membership in the default group.
C5_FirstInitCatalogsEveryFile ==
    [][\A files_list \in Orderings(fsFiles) :
          (~tableInited /\ init_tables(files_list)) =>
            /\ tableInited'
            /\ \A f \in fsFiles :
                /\ \E r \in documents' :
                     r.path = f /\ r.status = Status_success
                /\ MembershipsOf(kb_group_documents', sha256(f),
                                 DEDAULT_GROUP_NAME) # {}
            /\ \E g \in document_groups' : g.group_name = DEDAULT_GROUP_NAME]_vars

\* the first init_tables has just run on a directory holding every path
C5_Witness ==
    /\ last.op = "init_tables"
    /\ ~last.inited
    /\ fsFiles = Paths
    /\ tableInited

\* C6: every document row keeps the doc_id and the path it was created
\* with, and its doc_id is the hash of its path, in every reachable state.
C6_DocIdPathImmutable ==
    [][/\ \A r \in documents' : r.doc_id = sha256(r.path)
       /\ \A r \in documents : \A r2 \in documents' :
            r2.doc_id = r.doc_id => r2.path = r.path]_vars

\* the memberships a status filter s and a group filter select
MembershipsMatching(group, s) ==
    {k \in kb_group_documents :
        /\ group # None => k.group_name = group
        /\ s # Status_all => k.status = s}

\* C7: without a row cap, list_files(status = s) returns exactly the
\* documents whose status is s and list_kb_group_files(group, status = s)
\* exactly the memberships (of the group, or of all groups) whose own status
\* is s; with 'all' no row is filtered out.
C7_StatusFilterExact ==
    \A s \in StatusValues \cup {Status_failed, Status_all} :
        /\ LET D == {r \in documents : s = Status_all \/ r.status = s}
           IN  list_files(0, TRUE, s) = {BagOf(D, [r \in D |-> r])}
        /\ \A group \in GroupNames \cup {None} :
             \A res \in list_kb_group_files(group, 0, TRUE, s) :
                /\ BagCardinality(res) =
                      Cardinality(MembershipsMatching(group, s))
                /\ \A row \in DOMAIN res :
                     \E k \in MembershipsMatching(group, s) :
                        /\ k.doc_id = row[1]
                        /\ k.group_name = row[3]
                        /\ k.status = row[5]

\* C8: list_files without the detail flag returns the paths of the selected
\* documents, one per row; with the flag it returns the rows.
C8_ListFilesReturnsPaths ==
    \A s \in StatusValues \cup {Status_all} :
        LET D == list_files_rows(s)
        IN  /\ list_files(0, FALSE, s) = {BagOf(D, [r \in D |-> r.path])}
            /\ list_files(0, TRUE, s) = {BagOf(D, [r \in D |-> r])}

(***************************************************************************)
(* Properties of the ingestion pipeline.                                   *)
(***************************************************************************)
Range(seq) == {seq[i] : i \in DOMAIN seq}

\* the members of the well-formed archives of the batch
BatchMembers ==
    UNION {Range(batch[i].content.members) :
             i \in {j \in DOMAIN batch : /\ endswith_tar(batch[j].filename)
                                         /\ batch[j].content.kind = "tar"}}

\* the contents the batch submits under the name n with a recognized suffix
Submitted(n) ==
    IF splitext(n) \notin Default_Suport_File_Types THEN {}
    ELSE {batch[i].content :
            i \in {j \in DOMAIN batch : /\ ~endswith_tar(batch[j].filename)
                                        /\ batch[j].filename = n}}
         \cup {m.content : m \in {x \in BatchMembers : x.name = n}}

\* the names the batch submits with an unrecognized suffix: archive members
\* and uploads that are no archive
Unrecognized ==
    {n \in {batch[i].filename :
              i \in {j \in DOMAIN batch : ~endswith_tar(batch[j].filename)}}
           \cup {m.name : m \in BatchMembers} :
        splitext(n) \notin Default_Suport_File_Types}

Listed == Range(already_exist_files) \cup Range(new_add_files)
            \cup Range(overwritten_files)

\* C9: in a turn of the promotion loop, a staged name whose flattened name
\* exists at the destination is recorded as already-exists with the
\* destination unchanged when overwrite is off, and as overwritten with the
\* destination holding the submitted content when overwrite is on; a name
\* that does not exist there is moved and recorded as newly-added.
C9_CollisionPolicy ==
    [][(pc = "promote" /\ idx <= Len(result_list)) =>
         LET file_name == result_list[idx]
             real      == _convert_path_to_underscores(file_name)
         IN  IF real \in DOMAIN dest
             THEN IF ~override
                  THEN /\ already_exist_files' =
                             Append(already_exist_files, file_name)
                       /\ dest' = dest
                  ELSE /\ overwritten_files' =
                             Append(overwritten_files, file_name)
                       /\ real \in DOMAIN dest'
                       /\ dest'[real] \in Submitted(file_name)
             ELSE /\ new_add_files' = Append(new_add_files, file_name)
                  /\ real \in DOMAIN dest'
                  /\ dest'[real] \in Submitted(file_name)]_vars

\* C10: when the call has returned, every name in the three lists is one
\* the batch submitted with a recognized suffix, no name submitted with an
\* unrecognized suffix (archive member or plain upload) is in a list or was
\* put into the destination, under its own or its flattened name, and every
\* file the call added to the destination has a recognized suffix; the cache
\* directory below the destination is gone.
C10_ArchiveFiltering ==
    pc = "returned" =>
        /\ \A n \in Listed : Submitted(n) # {}
        /\ \A u \in Unrecognized :
             /\ u \notin Listed
             /\ \A f \in {u, _convert_path_to_underscores(u)} :
                  f \in DOMAIN dest => f \in DOMAIN dest0 /\ dest[f] = dest0[f]
        /\ \A f \in DOMAIN dest :
             \/ f \in DOMAIN dest0 /\ dest[f] = dest0[f]
             \/ /\ splitext(f) \in Default_Suport_File_Types
                /\ \E n \in Listed :
                     /\ _convert_path_to_underscores(n) = f
                     /\ dest[f] \in Submitted(n)
        /\ ~cacheExists /\ cache = <<>>

\* the call has returned for a batch with the archive of a recognized and
\* an unrecognized member: the one is at the destination, the other not
C10_Witness ==
    /\ pc = "returned"
    /\ \E i \in DOMAIN batch :
         /\ endswith_tar(batch[i].filename)
         /\ batch[i].content.kind = "tar"
    /\ B_EXE \in Unrecognized
    /\ B_EXE \notin DOMAIN dest
    /\ B_TXT \in Range(new_add_files)
    /\ B_TXT \in DOMAIN dest /\ dest[B_TXT] = Bytes("c1")

\* the call has ended: it returned the lists, or an exception left it
Ended == pc \in {"returned", "raised"}

\* C11: when save_files_in_threads has ended, by a return or by an exception
\* of a staging task or of a rename, the cache directory does not exist and
\* holds nothing.
C11_CacheRemovedWhenEnded ==
    Ended => ~cacheExists /\ cache = <<>>

\* C12: the three lists returned by save_files_in_threads are pairwise
\* disjoint.
C12_ListsDisjoint ==
    pc = "returned" =>
        /\ Range(already_exist_files) \cap Range(new_add_files) = {}
        /\ Range(already_exist_files) \cap Range(overwritten_files) = {}
        /\ Range(new_add_files) \cap Range(overwritten_files) = {}

\* the files of the cache a running task has written, or has looked up and
\* is about to write
Touching(i) ==
    CASE tasks[i].st = "write"  -> {batch[i].filename}
      [] tasks[i].st = "unpack" -> {batch[i].filename}
      [] tasks[i].st = "remove" -> {batch[i].filename} \cup Range(tasks[i].res)
      [] OTHER -> {}

\* C18: no two tasks of a batch that are running at the same time write, or
\* check and then write, the same file of the cache directory.
C18_TasksWriteDistinctPaths ==
    \A i, j \in DOMAIN tasks :
        i # j => Touching(i) \cap Touching(j) = {}

\* C19: promotion starts, and the call returns or raises, only when every
\* staging task of the batch has finished: no worker of the pool is running.
C19_PoolEndsWithTheBatch ==
    (pc \in {"promote", "returned", "raised"} \/ idx > 1 \/ Listed # {}) =>
        \A i \in DOMAIN tasks : Finished(i)

\* the call has returned for a batch of MaxFiles files that were all staged
\* and promoted
C19_Witness ==
    /\ pc = "returned"
    /\ Len(batch) = MaxFiles
    /\ \A i \in DOMAIN tasks : tasks[i].st = "done" /\ tasks[i].res # <<>>
    /\ new_add_files # <<>>

\* C17: when a staging task has failed (a malformed archive), the call
\* neither promotes nor returns, the exception reaches the caller, and by
\* then every other task of the batch has run to its end: none is cancelled.
C17_FailurePropagatesSiblingsComplete ==
    \A i \in 1..MaxFiles :
        [](i \in DOMAIN tasks /\ tasks[i].st = "failed" =>
              /\ pc \notin {"promote", "returned"}
              /\ <>(/\ pc = "raised"
                    /\ \A j \in DOMAIN tasks : tasks[j].st \in {"done", "failed"}))

\* the call raised for a malformed archive whose sibling task staged a file
C17_Witness ==
    /\ pc = "raised"
    /\ \E i, j \in DOMAIN tasks :
        /\ batch[i].content = Bytes("garbage")
        /\ tasks[i].st = "failed" /\ tasks[i].taken
        /\ tasks[j].st = "done" /\ tasks[j].res # <<>>
        /\ tasks[j].res[1] \in DOMAIN cache

\* C14: update_file_status changes no membership row;
\* update_kb_group_file_status(group, ids, s), ids one id or a list, sets the
\* status of exactly the memberships of that group whose doc_id is among the
\* ids, and changes no document and no other membership.
C14_StatusUpdatesFrame ==
    [][/\ \A fileid \in DocIds, status \in StatusValues :
            update_file_status(fileid, status) =>
                kb_group_documents' = kb_group_documents
       /\ \A group \in GroupNames, file_ids \in FileIdsArgs,
             status \in StatusValues :
            update_kb_group_file_status(group, file_ids, status) =>
                LET ids == IF "str" \in DOMAIN file_ids
                           THEN {file_ids.str} ELSE Range(file_ids.list)
                IN  /\ documents' = documents
                    /\ {k.id : k \in kb_group_documents'}
                           = {k.id : k \in kb_group_documents}
                    /\ \A k \in kb_group_documents :
                        \E k2 \in kb_group_documents' :
                            /\ k2.id = k.id
                            /\ IF k.group_name = group /\ k.doc_id \in ids
                               THEN k2 = [k EXCEPT !.status = status]
                               ELSE k2 = k]_vars

\* a document in two groups whose membership of one group was set to success
\* while that of the other and the document's own status are waiting
C14_Witness ==
    \E d \in documents : \E k1, k2 \in kb_group_documents :
        /\ k1.doc_id = d.doc_id /\ k2.doc_id = d.doc_id
        /\ k1.group_name # k2.group_name
        /\ k1.status = Status_success
        /\ k2.status = Status_waiting
        /\ d.status = Status_waiting

\* C20: every membership row names an existing document and an existing
\* group: its doc_id is the doc_id of a row of documents and its group_name
\* the group_name of a row of document_groups.
C20_MembershipsReferToRows ==
    \A k \in kb_group_documents :
        /\ \E d \in documents : d.doc_id = k.doc_id
        /\ \E g \in document_groups : g.group_name = k.group_name

(***************************************************************************)
(* Properties of the catalog used by several threads.                      *)
(***************************************************************************)
\* C13: when release() has returned, no connection of any thread is open
\* and the database file does not exist.
C13_ReleaseClosesEverything ==
    (\E t \in Threads : calls[t].st = "returned" /\ calls[t].c.op = "release")
        => /\ \A u \in Threads : conns[u] # "open"
           /\ ~dbFile

\* the call of thread t is an add_files that has ended and names path p
AddedBy(t, p) ==
    /\ calls[t].st \in {"returned", "raised"}
    /\ calls[t].c.op = "add_files"
    /\ p \in Range(calls[t].c.files)

\* the row the add_files call of thread t holds for path p
RowOf(t, p) ==
    LET c == calls[t].c
        i == CHOOSE k \in DOMAIN c.files : c.files[k] = p
    IN  DocumentRow(p, IF c.metadatas # <<>> THEN c.metadatas[i] ELSE "",
                    c.status)

\* C15: when two threads have called add_files for one path that had no row,
\* the table holds exactly one row for the path, with the values of the call
\* that committed first; the later call, and a call that raised, changed
\* nothing for the path.
C15_FirstWriterWins ==
    \A t, u \in Threads : \A p \in Paths \ fsFiles :
        (t # u /\ AddedBy(t, p) /\ AddedBy(u, p)) =>
            LET rows == {r \in documents : r.path = p}
            IN  /\ (calls[t].st = "raised" /\ calls[u].st = "raised")
                        => rows = {}
                /\ (/\ calls[t].st = "returned"
                    /\ \/ calls[u].st = "raised"
                       \/ calls[t].order < calls[u].order)
                        => rows = {RowOf(t, p)}

\* two add_files calls for one new path, with different values, have both
\* committed, the second having been under way when the first committed
C15_Witness ==
    \E t, u \in Threads : \E p \in Paths \ fsFiles :
        /\ t # u /\ AddedBy(t, p) /\ AddedBy(u, p)
        /\ calls[t].st = "returned" /\ calls[u].st = "returned"
        /\ calls[t].order < calls[u].order
        /\ u \in calls[t].during
        /\ RowOf(t, p).metadata # RowOf(u, p).metadata
        /\ RowOf(t, p).status # RowOf(u, p).status

\* C16: a call that writes is all or nothing: the step in which it raises
\* leaves the committed tables, which the other threads read, as they were,
\* and the committed tables change only in the step in which a call commits,
\* from the tables before the call to the tables after the whole call.
C16_AllOrNothing ==
    [][/\ \A t \in Threads :
            (calls[t].st = "running" /\ calls'[t].st = "raised") =>
                /\ Db' = Db
                /\ writer' # t
                /\ \A u \in Threads \ {t} : ReadBy(u)' = ReadBy(u)
       /\ Db' # Db =>
            \E t \in Threads :
                /\ calls[t].st = "running" /\ calls'[t].st = "returned"
                /\ Db' = ExecFrom(Db, calls[t].c, 1)
       /\ \A u \in Threads : writer # u => ReadBy(u) = Db]_vars

\* a call of two statements raised at the second, after the first had
\* changed a row inside the transaction
C16_Witness ==
    \E t \in Threads :
        /\ calls[t].st = "raised"
        /\ calls[t].i = 2
        /\ NStmts(calls[t].c) = 2
        /\ Exec(Db, calls[t].c, 1) # Db

=============================================================================
